---- MODULE Spec2Model ----
(***************************************************************************)
(* Model of the tusky-design release orchestrator (scripts/release.ts) and *)
(* of the star computation of the Rating component.                        *)
(*                                                                         *)
(* JavaScript strings are modelled as sequences of one-character strings,  *)
(* so that includes / split / startsWith / parseInt / trim are computed as *)
(* the runtime computes them.                                              *)
(***************************************************************************)
EXTENDS Integers, Sequences, FiniteSets, TLC

\* ------------------------------------------------------------------ bounds

\* candidate and published major versions range over 0..MaxMajor
MaxMajor == 10
\* file contents range over 1..MaxContent
MaxContent == 2
\* rating values range over 0..MaxValue tenths of a star
MaxValue == 60

\* ------------------------------------------------- string primitives (JS)

DigitChars == <<"0", "1", "2", "3", "4", "5", "6", "7", "8", "9">>

IsDigit(c) == \E i \in 1..10 : DigitChars[i] = c

DigitVal(c) == (CHOOSE i \in 1..10 : DigitChars[i] = c) - 1

WhiteSpace == {" ", "\n", "\t"}

\* String.prototype.startsWith
StartsWith(s, prefix) ==
    /\ Len(s) >= Len(prefix)
    /\ SubSeq(s, 1, Len(prefix)) = prefix

\* String.prototype.includes
Includes(s, sub) ==
    \E i \in 1..(Len(s) - Len(sub) + 1) : SubSeq(s, i, i + Len(sub) - 1) = sub

\* String.prototype.split with a one-character separator
RECURSIVE SplitAcc(_, _, _, _, _)
SplitAcc(s, sep, i, cur, acc) ==
    IF i > Len(s) THEN Append(acc, cur)
    ELSE IF s[i] = sep THEN SplitAcc(s, sep, i + 1, <<>>, Append(acc, cur))
    ELSE SplitAcc(s, sep, i + 1, Append(cur, s[i]), acc)

Split(s, sep) == SplitAcc(s, sep, 1, <<>>, <<>>)

\* String.prototype.trim
RECURSIVE TrimStart(_)
TrimStart(s) ==
    IF s # <<>> /\ Head(s) \in WhiteSpace THEN TrimStart(Tail(s)) ELSE s

RECURSIVE TrimEnd(_)
TrimEnd(s) ==
    IF s # <<>> /\ s[Len(s)] \in WhiteSpace
    THEN TrimEnd(SubSeq(s, 1, Len(s) - 1)) ELSE s

Trim(s) == TrimEnd(TrimStart(s))

\* parseInt(s, 10): leading white space, an optional sign, then the longest
\* run of digits; NaN when there is no digit.
RECURSIVE ParseDigits(_, _, _)
ParseDigits(s, i, acc) ==
    IF i > Len(s) \/ ~IsDigit(s[i]) THEN acc
    ELSE ParseDigits(s, i + 1, acc * 10 + DigitVal(s[i]))

ParseInt(s) ==
    LET t == TrimStart(s)
        signed == t # <<>> /\ Head(t) \in {"+", "-"}
        body == IF signed THEN Tail(t) ELSE t
        sign == IF signed /\ Head(t) = "-" THEN 0 - 1 ELSE 1
    IN  IF body = <<>> \/ ~IsDigit(Head(body))
        THEN [nan |-> TRUE, val |-> 0]
        ELSE [nan |-> FALSE, val |-> sign * ParseDigits(body, 1, 0)]

\* the < of two numbers, either of which may be NaN
NumLess(a, b) == ~a.nan /\ ~b.nan /\ a.val < b.val

\* Number -> decimal string (template literals, npm's output)
RECURSIVE ToStr(_)
ToStr(n) ==
    IF n < 10 THEN <<DigitChars[n + 1]>>
    ELSE ToStr(n \div 10) \o <<DigitChars[(n % 10) + 1]>>

\* ------------------------------------------------------- string literals

S_major == <<"m", "a", "j", "o", "r">>
S_minor == <<"m", "i", "n", "o", "r">>
S_patch == <<"p", "a", "t", "c", "h">>
S_pre == <<"p", "r", "e">>
S_release == <<"r", "e", "l", "e", "a", "s", "e">>
S_beta == <<"b", "e", "t", "a">>
S_rc == <<"r", "c">>
S_alpha == <<"a", "l", "p", "h", "a">>
S_canary == <<"c", "a", "n", "a", "r", "y">>
S_origin == <<"o", "r", "i", "g", "i", "n">>
S_upstream == <<"u", "p">>
S_dashdash == <<"-", "-">>
S_dryRun == <<"-", "-", "d", "r", "y", "-", "r", "u", "n">>
S_fromEq == <<"-", "-", "f", "r", "o", "m", "=">>
S_gitRemoteEq ==
    <<"-", "-", "g", "i", "t", "-", "r", "e", "m", "o", "t", "e", "=">>
S_node_modules ==
    <<"n", "o", "d", "e", "_", "m", "o", "d", "u", "l", "e", "s">>
S_tests == <<"_", "_", "t", "e", "s", "t", "s", "_", "_">>
S_packages == <<"p", "a", "c", "k", "a", "g", "e", "s">>

\* ------------------------------------------------------------ the state

VARIABLES
    argv,            \* process.argv.slice(2): a sequence of strings
    envCI,           \* process.env.CI: <<>> when unset, <<value>> when set
    cwd,             \* process.cwd()
    packages,        \* files under <cwd>/packages: [path, content] records
    pkgRootExists,   \* whether <cwd>/packages exists
    priorBuild,      \* files under <cwd>/build when the process started
    priorManifest,   \* manifest version in <cwd>/build when the process started
    build,           \* files under <cwd>/build
    buildExists,     \* whether <cwd>/build exists
    manifestVersion, \* version field of the manifests in build/; <<>> = as copied
    packageDirs,     \* copyPackagesToBuild: result of readdir
    pkgIdx,          \* copyPackagesToBuild: position of the for loop
    stagedBuild,     \* build/ as copyPackagesToBuild left it when it returned
    options,         \* parseArgs() result
    pc,              \* position of the process
    path,            \* branch taken by the entry point
    exitCode,        \* process exit status (meaningful when pc = "exited")
    error,           \* what was thrown, "none" otherwise
    calls,           \* external operations invoked so far, in order
    registry,        \* outcome of the npm view query; queried = FALSE before it
    distTag,         \* determineDistTag() result
    publishCmd,      \* the publish command built by publishToNpm
    changelogCmd,    \* the changelog command built by createGitHubRelease
    dryRunReport,    \* <<cmd>> once "[DRY RUN] Would execute: cmd" is printed
    value,           \* Rating: props.value, in tenths
    starStates,      \* Rating: getStarStates(value)
    rendered,        \* Rating: data-testid of each rendered star, in order
    rpc              \* Rating: position of the render

inputVars == <<argv, envCI, cwd, packages, pkgRootExists, priorBuild, priorManifest>>
fsVars == <<build, buildExists, manifestVersion>>
copyVars == <<packageDirs, pkgIdx, stagedBuild>>
procVars == <<options, pc, path, exitCode, error>>
extVars == <<calls, registry, distTag, publishCmd, changelogCmd, dryRunReport>>
ratingVars == <<value, starStates, rendered, rpc>>
vars == <<inputVars, fsVars, copyVars, procVars, extVars, ratingVars>>

\* ------------------------------------------------------ the input domain

\* literal versions <major>.5.0[-<label>]
MkVersion(major, label) ==
    ToStr(major) \o <<".", "5", ".", "0">>
        \o (IF label = <<>> THEN <<>> ELSE <<"-">> \o label)

Majors == 0..MaxMajor

Labels ==
    { <<>>,
      S_beta \o <<".", "1">>,
      S_rc \o <<".", "0">>,
      S_alpha,
      S_canary \o <<".", "1">>,
      <<"x", "-">> \o S_beta,
      <<"b", ".", "1">> }

LiteralVersions == { MkVersion(m, l) : m \in Majors, l \in Labels }

RelativeKeywords ==
    { S_major, S_minor, S_patch, S_pre \o S_major, S_pre \o S_minor,
      S_pre \o S_patch, S_pre \o S_release }

VersionArgs == LiteralVersions \cup RelativeKeywords

FlagLists ==
    { <<>>,
      <<S_dryRun>>,
      <<S_fromEq \o MkVersion(1, <<>>)>>,
      <<S_dryRun, S_gitRemoteEq \o S_upstream>>,
      <<S_fromEq \o MkVersion(1, <<>>), S_gitRemoteEq>> }

ArgLists ==
    { pos \o flags : pos \in {<<>>} \cup { <<v>> : v \in VersionArgs },
                     flags \in FlagLists }

EnvChoices == { <<>>, <<<<>>>>, <<<<"t", "r", "u", "e">>>>, <<<<"0">>>> }

RegistryOutcomes ==
    { [queried |-> TRUE, ok |-> FALSE, out |-> <<>>],
      [queried |-> TRUE, ok |-> TRUE, out |-> <<"\n">>] }
    \cup { [queried |-> TRUE, ok |-> TRUE, out |-> MkVersion(m, <<>>) \o <<"\n">>] :
             m \in Majors }

NotQueried == [queried |-> FALSE, ok |-> FALSE, out |-> <<>>]

\* ------------------------------------------------------------ parseArgs

DefaultOptions ==
    [version |-> S_minor, dryRun |-> FALSE, from |-> <<>>, gitRemote |-> S_origin]

parseArg(opts, arg) ==
    IF arg = S_dryRun THEN [opts EXCEPT !.dryRun = TRUE]
    ELSE IF StartsWith(arg, S_fromEq)
        THEN [opts EXCEPT !.from = <<Split(arg, "=")[2]>>]
    ELSE IF StartsWith(arg, S_gitRemoteEq)
        THEN [opts EXCEPT !.gitRemote = Split(arg, "=")[2]]
    ELSE IF ~StartsWith(arg, S_dashdash)
        THEN [opts EXCEPT !.version = arg]
    ELSE opts

RECURSIVE parseArgsFrom(_, _, _)
parseArgsFrom(args, i, opts) ==
    IF i > Len(args) THEN opts
    ELSE parseArgsFrom(args, i + 1, parseArg(opts, args[i]))

parseArgs(args) == parseArgsFrom(args, 1, DefaultOptions)

\* --------------------------------------------- isRelativeVersionKeyword

isRelativeVersionKeyword_dropMinor(version) ==
    version \in { S_major, S_patch, S_pre \o S_major, S_pre \o S_minor,
                  S_pre \o S_patch, S_pre \o S_release }

isRelativeVersionKeyword(version) ==
    version \in { S_major, S_minor, S_patch, S_pre \o S_major,
                  S_pre \o S_minor, S_pre \o S_patch, S_pre \o S_release }

\* ----------------------------------------------------- determineDistTag

\* lines 79-88: the early return of 'next'
prereleaseIsNext_noRc(version) ==
    /\ Includes(version, <<"-">>)
    /\ LET prerelease == Split(version, "-")[2]
       IN  \/ StartsWith(prerelease, S_beta)
           \/ StartsWith(prerelease, S_alpha)

prereleaseIsNext(version) ==
    /\ Includes(version, <<"-">>)
    /\ LET prerelease == Split(version, "-")[2]
       IN  \/ StartsWith(prerelease, S_beta)
           \/ StartsWith(prerelease, S_rc)
           \/ StartsWith(prerelease, S_alpha)

\* lines 91-108: the registry comparison; a failed execSync is caught
tagFromRegistry_lessOrEqual(version, reg) ==
    IF reg.ok /\ Trim(reg.out) # <<>>
    THEN LET currentMajor == ParseInt(Split(version, ".")[1])
             latestMajor == ParseInt(Split(Trim(reg.out), ".")[1])
         IN  IF ~currentMajor.nan /\ ~latestMajor.nan
                  /\ currentMajor.val <= latestMajor.val
             THEN "previous" ELSE "latest"
    ELSE "latest"

tagFromRegistry_firstDigit(version, reg) ==
    IF reg.ok /\ Trim(reg.out) # <<>>
    THEN LET currentMajor == ParseInt(SubSeq(version, 1, 1))
             latestMajor == ParseInt(SubSeq(Trim(reg.out), 1, 1))
         IN  IF NumLess(currentMajor, latestMajor) THEN "previous" ELSE "latest"
    ELSE "latest"

tagFromRegistry(version, reg) ==
    IF reg.ok /\ Trim(reg.out) # <<>>
    THEN LET currentMajor == ParseInt(Split(version, ".")[1])
             latestMajor == ParseInt(Split(Trim(reg.out), ".")[1])
         IN  IF NumLess(currentMajor, latestMajor) THEN "previous" ELSE "latest"
    ELSE "latest"

determineDistTag(version, reg) ==
    IF prereleaseIsNext(version) THEN "next" ELSE tagFromRegistry(version, reg)

\* ------------------------------------------------------ the file system

N_ui == <<"u", "i">>
N_co == <<"c", "o">>
N_s == <<"s">>
N_old == <<"o", "l", "d">>
N_xtests == <<"x">> \o S_tests \o <<"y">>
F_i == <<"i", ".", "t", "s">>
F_d == <<"d", ".", "j", "s">>
F_t == <<"t", ".", "t", "s">>
F_c == <<"c", ".", "j", "s">>
F_b == <<"b", ".", "t", "s">>
F_z == <<"z", ".", "j", "s">>
F_readme == <<"R", "M">>

\* candidate entries of <cwd>/packages, as name sequences below that root:
\* ui/i.ts, ui/node_modules/d.js, ui/s/__tests__/t.ts, x__tests__y/c.js,
\* RM (a top-level file), co/b.ts
UniversePaths ==
    { <<N_ui, F_i>>,
      <<N_ui, S_node_modules, F_d>>,
      <<N_ui, N_s, S_tests, F_t>>,
      <<N_xtests, F_c>>,
      <<F_readme>>,
      <<N_co, F_b>> }

\* the order readdir lists the top-level names in
TopLevelOrder == <<F_readme, N_co, N_ui, N_xtests>>

File(p, c) == [path |-> p, content |-> c]

AllPackages ==
    { { File(p, c[p]) : p \in { q \in UniversePaths : c[q] > 0 } } :
        c \in [UniversePaths -> 0..MaxContent] }

SmallPackages ==
    { File(<<F_readme>>, 1), File(<<N_ui, F_i>>, 1),
      File(<<N_ui, S_node_modules, F_d>>, 1) }

\* what an earlier run may have left in build/
PriorChoices ==
    { {},
      { File(<<N_old, F_z>>, 1) },
      { File(<<N_ui, F_i>>, MaxContent), File(<<N_ui, S_node_modules, F_d>>, 1) } }

CwdChoices == { <<"/", "w">>, <<"/">> \o S_node_modules \o <<"/", "w">> }

\* path.join(base, ...names)
RECURSIVE PathJoin(_, _)
PathJoin(base, names) ==
    IF names = <<>> THEN base
    ELSE PathJoin(base \o <<"/">> \o Head(names), Tail(names))

packagesDir == PathJoin(cwd, <<S_packages>>)

\* fs.readdir(packagesDir)
readdir ==
    LET present(n) == \E f \in packages : f.path[1] = n
    IN  SelectSeq(TopLevelOrder, present)

\* (await fs.stat(srcDir)).isDirectory()
isDirectory(pkg) == \E f \in packages : f.path[1] = pkg /\ Len(f.path) > 1

\* the filter option of fs.copy (line 70-72)
copyFilter_testsOnly(src) == ~Includes(src, S_tests)

copyFilter(src) == ~Includes(src, S_node_modules) /\ ~Includes(src, S_tests)

\* destDir, as names below buildDir (line 64)
destDir(pkg) == <<pkg>>

\* fs.copy(srcDir, destDir, {filter}): the filter is asked for srcDir and then
\* for every entry on the way down; a rejected directory is not descended.
fsCopy(pkg) ==
    { File(destDir(pkg) \o Tail(f.path), f.content) :
        f \in { g \in packages :
                  /\ g.path[1] = pkg
                  /\ \A k \in 1..Len(g.path) :
                        copyFilter(PathJoin(packagesDir, SubSeq(g.path, 1, k))) } }

\* ------------------------------------------------------------ Rating

\* getStarStates(value), value in tenths
getStarStates_strict(v) ==
    LET floor == v \div 10
        decimal == v - floor * 10
    IN  [i \in 1..5 |->
           IF i - 1 < floor THEN "filled"
           ELSE IF i - 1 = floor /\ decimal > 5 THEN "half"
           ELSE "empty"]

getStarStates(v) ==
    LET floor == v \div 10
        decimal == v - floor * 10
    IN  [i \in 1..5 |->
           IF i - 1 < floor THEN "filled"
           ELSE IF i - 1 = floor /\ decimal >= 5 THEN "half"
           ELSE "empty"]

\* the data-testid the Rating component gives the star of a state
starTestId(state) ==
    IF state = "half" THEN "star-half"
    ELSE IF state = "filled" THEN "star-filled" ELSE "star-empty"

\* ------------------------------------------------------------ Init

InitRatingIdle ==
    /\ value = 0
    /\ starStates = <<>>
    /\ rendered = <<>>
    /\ rpc = "idle"

InitProcess ==
    /\ build = priorBuild
    /\ buildExists = (priorBuild # {})
    /\ priorManifest = (IF priorBuild = {} THEN <<>> ELSE MkVersion(0, <<>>))
    /\ manifestVersion = priorManifest
    /\ packageDirs = <<>>
    /\ pkgIdx = 0
    /\ stagedBuild = {}
    /\ options = DefaultOptions
    /\ exitCode = 0
    /\ error = "none"
    /\ calls = <<>>
    /\ registry = NotQueried
    /\ distTag = ""
    /\ publishCmd = [registry |-> "", tag |-> ""]
    /\ changelogCmd = [version |-> <<>>, from |-> <<>>, gitRemote |-> <<>>]
    /\ dryRunReport = <<>>

\* a run of the script
Init ==
    /\ argv \in ArgLists
    /\ envCI \in EnvChoices
    /\ cwd = <<"/", "w">>
    /\ pkgRootExists \in BOOLEAN
    /\ packages = (IF pkgRootExists THEN SmallPackages ELSE {})
    /\ priorBuild \in { {}, { File(<<N_old, F_z>>, 1) } }
    /\ pc = "start"
    /\ path = "none"
    /\ InitProcess
    /\ InitRatingIdle

\* a call of copyPackagesToBuild on any packages root and any build directory
InitCopy ==
    /\ argv = <<>>
    /\ envCI = <<>>
    /\ cwd \in CwdChoices
    /\ pkgRootExists \in BOOLEAN
    /\ packages \in (IF pkgRootExists THEN AllPackages ELSE {{}})
    /\ priorBuild \in PriorChoices
    /\ pc = "copy"
    /\ path = "copy"
    /\ InitProcess
    /\ InitRatingIdle

\* a render of <Rating value=... />
InitRating ==
    /\ argv = <<>>
    /\ envCI = <<>>
    /\ cwd = <<"/", "w">>
    /\ pkgRootExists = TRUE
    /\ packages = {}
    /\ priorBuild = {}
    /\ pc = "idle"
    /\ path = "none"
    /\ InitProcess
    /\ value \in 0..MaxValue
    /\ starStates = <<>>
    /\ rendered = <<>>
    /\ rpc = "start"

\* ------------------------------------------------------------ helpers

Call(op, ok, tag) == [op |-> op, ok |-> ok, tag |-> tag]

\* an uncaught exception: the promise of the entry point rejects and the
\* process ends with status 1
Throw(e) ==
    /\ pc' = "exited"
    /\ exitCode' = 1
    /\ error' = e

\* process.exit(0), or the entry point running to its end
Exit0 ==
    /\ pc' = "exited"
    /\ exitCode' = 0
    /\ error' = error

\* !process.env.CI is false: CI is set to a non-empty string
ciTruthy_whenUnset == envCI = <<>>

ciTruthy == envCI # <<>> /\ envCI[1] # <<>>

\* ------------------------------------------------- the entry point (168-179)

MainParse ==
    /\ pc = "start"
    /\ options' = parseArgs(argv)
    /\ pc' = "main"
    /\ UNCHANGED <<inputVars, fsVars, copyVars, path, exitCode, error, extVars,
                   ratingVars>>

MainBranch ==
    /\ pc = "main"
    /\ IF ~ciTruthy
       THEN path' = "staging" /\ pc' = "gh_check"
       ELSE path' = "publish" /\ pc' = "copy"
    /\ UNCHANGED <<inputVars, fsVars, copyVars, options, exitCode, error, extVars,
                   ratingVars>>

\* ------------------------------------- createGitHubRelease (111-139)

CreateCheck ==
    /\ pc = "gh_check"
    /\ IF isRelativeVersionKeyword(options.version)
       THEN Throw("InvalidVersionSpecifier")
       ELSE pc' = "copy" /\ UNCHANGED <<exitCode, error>>
    /\ UNCHANGED <<inputVars, fsVars, copyVars, options, path, extVars, ratingVars>>

\* ------------------------------------- copyPackagesToBuild (51-75)

CopyRemove ==
    /\ pc = "copy"
    /\ build' = {}
    /\ buildExists' = FALSE
    /\ manifestVersion' = <<>>
    /\ calls' = Append(calls, Call("fs.remove", TRUE, ""))
    /\ pc' = "copy_ensure"
    /\ UNCHANGED <<inputVars, copyVars, options, path, exitCode, error, registry,
                   distTag, publishCmd, changelogCmd, dryRunReport, ratingVars>>

CopyEnsureDir ==
    /\ pc = "copy_ensure"
    /\ buildExists' = TRUE
    /\ calls' = Append(calls, Call("fs.ensureDir", TRUE, ""))
    /\ pc' = "copy_readdir"
    /\ UNCHANGED <<inputVars, build, manifestVersion, copyVars, options, path,
                   exitCode, error, registry, distTag, publishCmd, changelogCmd,
                   dryRunReport, ratingVars>>

CopyReaddir ==
    /\ pc = "copy_readdir"
    /\ pkgRootExists
    /\ packageDirs' = readdir
    /\ pkgIdx' = 1
    /\ pc' = "copy_loop"
    /\ UNCHANGED <<inputVars, fsVars, stagedBuild, options, path, exitCode, error,
                   extVars, ratingVars>>

\* readdir of a missing packages root rejects (ENOENT)
CopyReaddirFail ==
    /\ pc = "copy_readdir"
    /\ ~pkgRootExists
    /\ Throw("ENOENT")
    /\ UNCHANGED <<inputVars, fsVars, copyVars, options, path, extVars, ratingVars>>

\* line 67: a top-level entry that is no directory is skipped
CopyLoopSkip ==
    /\ pc = "copy_loop"
    /\ pkgIdx <= Len(packageDirs)
    /\ ~isDirectory(packageDirs[pkgIdx])
    /\ pkgIdx' = pkgIdx + 1
    /\ UNCHANGED <<inputVars, fsVars, packageDirs, stagedBuild, procVars, extVars,
                   ratingVars>>

CopyLoopCopy ==
    /\ pc = "copy_loop"
    /\ pkgIdx <= Len(packageDirs)
    /\ isDirectory(packageDirs[pkgIdx])
    /\ LET copied == fsCopy(packageDirs[pkgIdx])
       IN  build' = { f \in build : \A g \in copied : g.path # f.path } \cup copied
    /\ calls' = Append(calls, Call("fs.copy", TRUE, ""))
    /\ pkgIdx' = pkgIdx + 1
    /\ UNCHANGED <<inputVars, buildExists, manifestVersion, packageDirs, stagedBuild,
                   procVars, registry, distTag, publishCmd, changelogCmd,
                   dryRunReport, ratingVars>>

CopyReturn ==
    /\ pc = "copy_loop"
    /\ pkgIdx > Len(packageDirs)
    /\ stagedBuild' = build
    /\ pc' = "copied"
    /\ UNCHANGED <<inputVars, fsVars, packageDirs, pkgIdx, options, path, exitCode,
                   error, extVars, ratingVars>>

\* ------------------------------------- the version bump (120-125, 146-151)

\* execSync(`pnpm nx release version --specifier ${options.version}`): the
\* operation rewrites the manifest versions in build/; a failing one may or
\* may not have written them before it failed.
Bump_swallow(next) ==
    \E ok \in BOOLEAN :
        /\ calls' = Append(calls, Call("version", ok, ""))
        /\ manifestVersion' = (IF ok THEN options.version ELSE manifestVersion)
        /\ pc' = next
        /\ UNCHANGED <<exitCode, error>>
        /\ UNCHANGED <<inputVars, build, buildExists, copyVars, options, path,
                       registry, distTag, publishCmd, changelogCmd, dryRunReport,
                       ratingVars>>

Bump(next) ==
    \E ok \in BOOLEAN :
        /\ calls' = Append(calls, Call("version", ok, ""))
        /\ IF ok
           THEN /\ manifestVersion' = options.version
                /\ pc' = next
                /\ UNCHANGED <<exitCode, error>>
           ELSE /\ manifestVersion' \in {manifestVersion, options.version}
                /\ Throw("ExternalOperationFailure")
        /\ UNCHANGED <<inputVars, build, buildExists, copyVars, options, path,
                       registry, distTag, publishCmd, changelogCmd, dryRunReport,
                       ratingVars>>

BumpStaging ==
    /\ pc = "copied"
    /\ path = "staging"
    /\ Bump("changelog")

BumpPublish ==
    /\ pc = "copied"
    /\ path = "publish"
    /\ Bump("dist_tag")

\* ------------------------------------- createGitHubRelease, step 3 (127-138)

Changelog ==
    /\ pc = "changelog"
    /\ changelogCmd' =
          [version |-> options.version,
           from |-> IF options.from # <<>> /\ options.from[1] # <<>>
                    THEN options.from ELSE <<>>,
           gitRemote |-> IF options.gitRemote # <<>>
                         THEN <<options.gitRemote>> ELSE <<>>]
    /\ \E ok \in BOOLEAN :
          /\ calls' = Append(calls, Call("changelog", ok, ""))
          /\ IF ok THEN Exit0 ELSE Throw("ExternalOperationFailure")
    /\ UNCHANGED <<inputVars, fsVars, copyVars, options, path, registry, distTag,
                   publishCmd, dryRunReport, ratingVars>>

\* ------------------------------------- publishToNpm, steps 3 and 4 (153-165)

\* determineDistTag(options.version): the registry is asked only when the
\* early return of 'next' is not taken
ResolveDistTag ==
    /\ pc = "dist_tag"
    /\ IF prereleaseIsNext(options.version)
       THEN /\ distTag' = determineDistTag(options.version, NotQueried)
            /\ UNCHANGED <<registry, calls>>
       ELSE \E reg \in RegistryOutcomes :
               /\ registry' = reg
               /\ calls' = Append(calls, Call("npm view", reg.ok, ""))
               /\ distTag' = determineDistTag(options.version, reg)
    /\ pc' = "publish"
    /\ UNCHANGED <<inputVars, fsVars, copyVars, options, path, exitCode, error,
                   publishCmd, changelogCmd, dryRunReport, ratingVars>>

PublishCmd == [registry |-> "https://registry.npmjs.org", tag |-> distTag]

PublishDryRun ==
    /\ pc = "publish"
    /\ options.dryRun
    /\ publishCmd' = PublishCmd
    /\ dryRunReport' = <<PublishCmd>>
    /\ Exit0
    /\ UNCHANGED <<inputVars, fsVars, copyVars, options, path, calls, registry,
                   distTag, changelogCmd, ratingVars>>

PublishExec_ignoreDryRun ==
    /\ pc = "publish"
    /\ publishCmd' = PublishCmd
    /\ \E ok \in BOOLEAN :
          /\ calls' = Append(calls, Call("publish", ok, distTag))
          /\ IF ok THEN Exit0 ELSE Throw("ExternalOperationFailure")
    /\ UNCHANGED <<inputVars, fsVars, copyVars, options, path, registry, distTag,
                   changelogCmd, dryRunReport, ratingVars>>

PublishExec ==
    /\ pc = "publish"
    /\ ~options.dryRun
    /\ publishCmd' = PublishCmd
    /\ \E ok \in BOOLEAN :
          /\ calls' = Append(calls, Call("publish", ok, distTag))
          /\ IF ok THEN Exit0 ELSE Throw("ExternalOperationFailure")
    /\ UNCHANGED <<inputVars, fsVars, copyVars, options, path, registry, distTag,
                   changelogCmd, dryRunReport, ratingVars>>

\* ------------------------------------- Rating (53-83 of the component)

RatingStates ==
    /\ rpc = "start"
    /\ starStates' = getStarStates(value)
    /\ rpc' = "states"
    /\ UNCHANGED <<inputVars, fsVars, copyVars, procVars, extVars, value, rendered>>

RatingRender ==
    /\ rpc = "states"
    /\ rendered' = [i \in 1..Len(starStates) |-> starTestId(starStates[i])]
    /\ rpc' = "done"
    /\ UNCHANGED <<inputVars, fsVars, copyVars, procVars, extVars, value, starStates>>

\* ------------------------------------------------------------ specifications

NextCopy ==
    \/ CopyRemove
    \/ CopyEnsureDir
    \/ CopyReaddir
    \/ CopyReaddirFail
    \/ CopyLoopSkip
    \/ CopyLoopCopy
    \/ CopyReturn

Next ==
    \/ MainParse
    \/ MainBranch
    \/ CreateCheck
    \/ CopyRemove
    \/ CopyEnsureDir
    \/ CopyReaddir
    \/ CopyReaddirFail
    \/ CopyLoopSkip
    \/ CopyLoopCopy
    \/ CopyReturn
    \/ BumpStaging
    \/ BumpPublish
    \/ Changelog
    \/ ResolveDistTag
    \/ PublishDryRun
    \/ PublishExec

NextRating ==
    \/ RatingStates
    \/ RatingRender

Spec == Init /\ [][Next]_vars

SpecCopy == InitCopy /\ [][NextCopy]_vars

SpecRating == InitRating /\ [][NextRating]_vars

\* ------------------------------------------------ vocabulary of the properties

\* the version the command line asks for: the positional argument, 'minor'
\* when there is none
RequestedVersion ==
    IF argv # <<>> /\ argv[1] \in VersionArgs THEN argv[1] ELSE S_minor

Parsed == pc # "start"

\* a '-' followed by a label
HasLabel(v) == \E i \in 1..(Len(v) - 1) : v[i] = "-"

\* the text after the first '-'
LabelOf(v) ==
    LET i == CHOOSE k \in 1..Len(v) : v[k] = "-" /\ \A j \in 1..(k - 1) : v[j] # "-"
    IN  SubSeq(v, i + 1, Len(v))

LabelIsBetaRcAlpha(v) ==
    /\ HasLabel(v)
    /\ \E w \in {S_beta, S_rc, S_alpha} :
          /\ Len(LabelOf(v)) >= Len(w)
          /\ \A k \in 1..Len(w) : LabelOf(v)[k] = w[k]

\* the major version a literal version was written with
MajorOf(v) == CHOOSE m \in Majors : \E l \in Labels : v = MkVersion(m, l)

\* the registry answered with the version of major m
Published(reg, m) == reg.ok /\ reg.out = MkVersion(m, <<>>) \o <<"\n">>

Invoked(op) == \E i \in DOMAIN calls : calls[i].op = op

TagResolved == distTag # ""

ExternalOps == {"version", "changelog", "publish"}

NetworkOps == {"npm view", "publish"}

\* ------------------------------------------------------------ C1

\* C1: when CI is unset and the requested version is a relative bump keyword
\* (the default 'minor' included), the run can only end in the
\* InvalidVersionSpecifier failure, with a non-zero status, and at no point
\* has build/ been deleted or written or any operation been invoked.
C1_KeywordRejectedBeforeSideEffects ==
    (envCI = <<>> /\ RequestedVersion \in RelativeKeywords) =>
        /\ pc \in {"start", "main", "gh_check", "exited"}
        /\ Parsed => options.version = RequestedVersion
        /\ pc = "exited" => error = "InvalidVersionSpecifier" /\ exitCode # 0
        /\ build = priorBuild
        /\ buildExists = (priorBuild # {})
        /\ manifestVersion = priorManifest
        /\ calls = <<>>

C1_Witness ==
    /\ envCI = <<>>
    /\ argv = <<S_dryRun>>
    /\ priorBuild # {}
    /\ pc = "exited"
    /\ error = "InvalidVersionSpecifier"

\* ------------------------------------------------------------ C2

\* C2: for a literal version whose label starts with beta, rc or alpha,
\* determineDistTag returns 'next' for every registry state, and the run
\* resolves the tag 'next' without asking the registry.
C2_BetaRcAlphaIsNext ==
    (Parsed /\ options.version \in LiteralVersions
            /\ LabelIsBetaRcAlpha(options.version)) =>
        /\ \A reg \in RegistryOutcomes \cup {NotQueried} :
              determineDistTag(options.version, reg) = "next"
        /\ ~registry.queried
        /\ ~Invoked("npm view")
        /\ TagResolved => distTag = "next"

C2_Witness ==
    /\ options.version = MkVersion(2, S_rc \o <<".", "0">>)
    /\ pc = "publish"
    /\ distTag = "next"

\* ------------------------------------------------------------ C3

\* C3: for a version without a label, when the registry answers with a
\* version of a greater major, the tag is 'previous'.
C3_OlderMajorIsPrevious ==
    (Parsed /\ options.version \in LiteralVersions /\ ~HasLabel(options.version)) =>
        /\ \A reg \in RegistryOutcomes : \A m \in Majors :
              (Published(reg, m) /\ MajorOf(options.version) < m) =>
                  determineDistTag(options.version, reg) = "previous"
        /\ \A m \in Majors :
              (TagResolved /\ Published(registry, m) /\ MajorOf(options.version) < m)
                  => distTag = "previous"

C3_Witness ==
    /\ options.version = MkVersion(2, <<>>)
    /\ Published(registry, 10)
    /\ pc = "publish"
    /\ distTag = "previous"

\* ------------------------------------------------------------ C4

\* C4: for a version without a label, when the registry query fails, or
\* answers with a version whose major is not greater, the tag is 'latest';
\* a failed query does not end the run: the publish step is reached with the
\* tag 'latest', and a run that ended has published, or reported, under it.
C4_LatestOtherwise ==
    (Parsed /\ options.version \in LiteralVersions /\ ~HasLabel(options.version)) =>
        /\ \A reg \in RegistryOutcomes :
              (~reg.ok \/ \E m \in Majors :
                            Published(reg, m) /\ MajorOf(options.version) >= m)
                  => determineDistTag(options.version, reg) = "latest"
        /\ (TagResolved /\ (~registry.ok \/ \E m \in Majors :
                  Published(registry, m) /\ MajorOf(options.version) >= m))
              => distTag = "latest"
        /\ (registry.queried /\ ~registry.ok) =>
              /\ pc \in {"publish", "exited"}
              /\ distTag = "latest"
              /\ pc = "exited" =>
                    /\ publishCmd.tag = "latest"
                    /\ IF options.dryRun
                       THEN exitCode = 0 /\ dryRunReport = <<publishCmd>>
                       ELSE /\ calls[Len(calls)].op = "publish"
                            /\ calls[Len(calls)].tag = "latest"
                            /\ exitCode = 0 <=> calls[Len(calls)].ok

C4_Witness ==
    /\ options.version = MkVersion(1, <<>>)
    /\ registry.queried
    /\ ~registry.ok
    /\ pc = "exited"
    /\ exitCode = 0
    /\ calls[Len(calls)] = Call("publish", TRUE, "latest")

\* ------------------------------------------------------------ C5

\* C5 as stated: on the publish path with a literal version and --dry-run, no
\* network operation is ever invoked, and a run that ends without a failed
\* operation has reported the publish command and exits with status 0.
C5_DryRunNoNetwork ==
    (path = "publish" /\ options.version \in LiteralVersions /\ options.dryRun) =>
        /\ \A i \in DOMAIN calls : calls[i].op \notin NetworkOps
        /\ (pc = "exited" /\ error = "none") =>
              exitCode = 0 /\ dryRunReport = <<publishCmd>>

\* C5 as amended: the publish operation is never invoked; the registry query
\* of determineDistTag is the only network operation, invoked once, exactly
\* when the tag is resolved for a version whose label does not start with
\* beta, rc or alpha; once the copy and the version bump have succeeded the
\* run ends with the publish command reported and status 0.
C5_DryRunSkipsPublishOnly ==
    (path = "publish" /\ options.version \in LiteralVersions /\ options.dryRun) =>
        /\ ~Invoked("publish")
        /\ Cardinality({ i \in DOMAIN calls : calls[i].op \in NetworkOps }) <= 1
        /\ Invoked("npm view") <=>
              (TagResolved /\ ~LabelIsBetaRcAlpha(options.version))
        /\ (pc = "exited" /\ \E i \in DOMAIN calls :
                                 calls[i].op = "version" /\ calls[i].ok) =>
              /\ exitCode = 0
              /\ error = "none"
              /\ TagResolved
              /\ publishCmd = [registry |-> "https://registry.npmjs.org",
                               tag |-> distTag]
              /\ dryRunReport = <<publishCmd>>
        /\ (pc = "exited" /\ exitCode # 0) => dryRunReport = <<>> /\ ~TagResolved

C5_Witness ==
    /\ path = "publish"
    /\ options.version = MkVersion(1, <<>>)
    /\ options.dryRun
    /\ Invoked("npm view")
    /\ pc = "exited"
    /\ exitCode = 0
    /\ dryRunReport # <<>>

\* ------------------------------------------------------------ C6

\* C6 as stated: the staging path runs when CI is unset, the publish path
\* when CI is set, whatever its value; the staging path never asks the
\* registry nor publishes, the publish path never creates the changelog.
C6_BranchByPresence ==
    /\ (path # "none" /\ envCI = <<>>) =>
          path = "staging" /\ ~Invoked("npm view") /\ ~Invoked("publish")
    /\ (path # "none" /\ envCI # <<>>) =>
          path = "publish" /\ ~Invoked("changelog")

\* C6 as amended: the staging path runs when CI is unset or set to the empty
\* string, the publish path when CI is set to a non-empty string, whatever
\* that string is; the operations of the two paths never mix.
C6_BranchByNonEmptyValue ==
    /\ (path # "none" /\ (envCI = <<>> \/ envCI = << <<>> >>)) =>
          path = "staging" /\ ~Invoked("npm view") /\ ~Invoked("publish")
    /\ (path # "none" /\ envCI # <<>> /\ envCI # << <<>> >>) =>
          path = "publish" /\ ~Invoked("changelog")
    /\ pc \notin {"start", "main"} => path # "none"
    /\ ~(Invoked("changelog") /\ (Invoked("npm view") \/ Invoked("publish")))

C6_Witness ==
    /\ envCI = << <<>> >>
    /\ path = "staging"
    /\ Invoked("changelog")
    /\ pc = "exited"

\* ------------------------------------------------------------ C7

\* C7: a version with a prerelease label, whatever the label, is never
\* published under the tag 'latest'.
C7_PrereleaseNeverLatest ==
    \A i \in DOMAIN calls :
        (calls[i].op = "publish" /\ options.version \in LiteralVersions
            /\ HasLabel(options.version)) => calls[i].tag # "latest"

\* ------------------------------------------------------------ C8

\* what C8 says of every failed version-bump, changelog or publish operation:
\* it is the last operation invoked, no operation was invoked twice, and the
\* process has ended with a non-zero status
FailureIsFinal ==
    \A i \in DOMAIN calls :
        (calls[i].op \in ExternalOps /\ ~calls[i].ok) =>
            /\ i = Len(calls)
            /\ pc = "exited"
            /\ exitCode # 0
            /\ error = "ExternalOperationFailure"
            /\ \A j, k \in DOMAIN calls :
                  (calls[j].op = calls[k].op /\ calls[j].op \in ExternalOps) => j = k

FailedRun == calls # <<>> /\ calls[Len(calls)].op \in ExternalOps /\ ~calls[Len(calls)].ok

\* C8 as stated: after such a failure build/ is exactly what the staging copy
\* wrote.
C8_FailureLeavesStagedCopy ==
    /\ FailureIsFinal
    /\ FailedRun =>
          /\ buildExists
          /\ build = stagedBuild
          /\ manifestVersion = <<>>

\* C8 as amended: after such a failure build/ holds the files the staging copy
\* wrote; its manifests are as copied or carry the version the version-bump
\* operation wrote. Nothing is rolled back.
C8_FailureLeavesStagedAndBumped ==
    /\ FailureIsFinal
    /\ FailedRun =>
          /\ buildExists
          /\ build = stagedBuild
          /\ manifestVersion \in {<<>>, options.version}
          /\ (calls[Len(calls)].op # "version") => manifestVersion = options.version

C8_Witness ==
    /\ FailedRun
    /\ calls[Len(calls)].op = "changelog"
    /\ build # {}
    /\ manifestVersion = MkVersion(1, <<>>)
    /\ pc = "exited"
    /\ exitCode = 1

\* ------------------------------------------------------------ C9

\* the absolute source path of an entry of the packages root
SourcePath(f) == PathJoin(cwd \o <<"/">> \o S_packages, f.path)

Marked(f) ==
    \/ Includes(SourcePath(f), S_node_modules)
    \/ Includes(SourcePath(f), S_tests)

StarRank(t) == IF t = "star-filled" THEN 1 ELSE IF t = "star-half" THEN 2 ELSE 3

StarCount(t) == Cardinality({ i \in DOMAIN rendered : rendered[i] = t })

\* C10: for a value that is a multiple of 0.5 in [0, 5] the component renders
\* five stars, filled before half before empty: floor(value) filled, one half
\* exactly when the fraction is 0.5, the rest empty.
C10_FiveStarsInOrder ==
    (rpc = "done" /\ value <= 50 /\ value % 5 = 0) =>
        /\ Len(rendered) = 5
        /\ \A i \in DOMAIN rendered :
              rendered[i] \in {"star-filled", "star-half", "star-empty"}
        /\ \A i, j \in DOMAIN rendered :
              i < j => StarRank(rendered[i]) <= StarRank(rendered[j])
        /\ StarCount("star-filled") = value \div 10
        /\ StarCount("star-half") = (IF value % 10 = 5 THEN 1 ELSE 0)
        /\ StarCount("star-empty") = 5 - StarCount("star-filled") - StarCount("star-half")

C10_Witness ==
    /\ rpc = "done"
    /\ value = 35
    /\ rendered = <<"star-filled", "star-filled", "star-filled", "star-half",
                    "star-empty">>

====
